---- MODULE Spec2Model ----
(***************************************************************************)
(* The feed-correction pipeline of amtrak-schedule-fixer (src/src/main.rs, *)
(* fn main and make_calendar_for_trip_short_name) as a state machine.      *)
(*                                                                         *)
(* The state is the loaded feed (the tables read at main.rs:76-87, which   *)
(* never change), the sets the detectors build, the position of the run,   *)
(* and the records serialized so far to each of the six csv writers.       *)
(*                                                                         *)
(* Representation.                                                         *)
(*  - Option<T>: None is <<>>, Some(v) is <<v>>.                           *)
(*  - The strings the code formats or inspects (trip ids, trip short       *)
(*    names, calendar/service ids) are sequences of one-character          *)
(*    strings, so format! is concatenation and starts_with reads the first *)
(*    character. Strings that are only compared are TLA+ strings.          *)
(*  - Coordinates are integers in units of 10^-6 degree, so the 0.1 degree *)
(*    threshold is 100000.                                                 *)
(*  - The feed is one that gtfs_structures::Gtfs::from_path accepted:      *)
(*    every stop_time names a trip and a stop of the feed, ids of routes,  *)
(*    trips, stops and calendars are unique, agency ids are unique when    *)
(*    present. Trip -> route, trip -> calendar and trip -> shape           *)
(*    references are not checked by the load and may dangle.               *)
(***************************************************************************)
EXTENDS Integers, Sequences, FiniteSets, TLC

VARIABLES
    agencies, routes, trips, stop_times, stops, shapes, calendar,
    pc,
    route_ids_to_remove_shapes_from, broken_shape_ids,
    midnight_todo, flagged,
    agency_id_to_name, remove_agency_ids, route_ids_to_remove, sle_route_ids,
    writers_open, trip_idx, kept_trip_ids, calendars_to_write,
    agency_out, route_out, trip_out, stop_time_out, stop_out, calendar_out

feed == <<agencies, routes, trips, stop_times, stops, shapes, calendar>>

detected == <<route_ids_to_remove_shapes_from, broken_shape_ids, flagged,
              agency_id_to_name, remove_agency_ids, route_ids_to_remove,
              sle_route_ids>>

outputs == <<agency_out, route_out, trip_out, stop_time_out, stop_out,
             calendar_out>>

vars == <<feed, pc, detected, midnight_todo, writers_open, trip_idx,
          kept_trip_ids, calendars_to_write, outputs>>

-----------------------------------------------------------------------------
(* Bounds of the model *)

NumTrips == 2

MaxShapeLen == 3

MaxStopTimes == 2

-----------------------------------------------------------------------------
(* Option and string helpers *)

None == <<>>

Some(v) == <<v>>

Unwrap(o) == o[1]

Range(s) == {s[i] : i \in DOMAIN s}

Abs(x) == IF x < 0 THEN -x ELSE x

\* str::starts_with(char)
StartsWith(s, c) == Len(s) > 0 /\ s[1] = c

-----------------------------------------------------------------------------
(* Program constants, main.rs:17-43 *)

TRIP_SHORT_NAMES_WITH_CALENDAR_FIXES ==
    { <<"2">>, <<"3", "4", "3">>, <<"4", "2", "2">> }

AGENCY_NAMES_TO_REMOVE == {"MARC", "Via Rail Canada"}

ROUTE_LONG_NAMES_TO_REMOVE == {"Capitol Corridor"}

SLE_AGENCY_NAME == "Shore Line East"

SLE_NEW_SHORT_NAME == "SLE"

SLE_NEW_LONG_NAME == "Shore Line East"

SLE_NEW_COLOR == "EA0D2A"

LBO_STOP_ID == "LBO"

LBO_STOP_NAME == "Los Banos Memorial Hospital"

LBO_LAT == 37064091

LBO_LON == -120861860

EWR_STOP_ID == "EWR"

EWR_LAT == 40704444

EWR_LON == -74190556

\* let threshold_degree_broken: f64 = 0.1
threshold_degree_broken == 100000

\* the route long names whose trips lose their shapes, main.rs:95
SHAPELESS_ROUTE_LONG_NAMES == {"California Zephyr", "Floridian"}

-----------------------------------------------------------------------------
(* Lookups in the loaded feed (gtfs_initial_read) *)

\* gtfs_initial_read.routes.get(id)
RoutesGet(route_id) ==
    LET m == {i \in DOMAIN routes : routes[i].id = route_id}
    IN  IF m = {} THEN None ELSE Some(routes[CHOOSE i \in m : TRUE])

\* gtfs_initial_read.calendar.get(id)
CalendarGet(service_id) ==
    LET m == {i \in DOMAIN calendar : calendar[i].id = service_id}
    IN  IF m = {} THEN None ELSE Some(calendar[CHOOSE i \in m : TRUE])

\* stop_time.stop: the stop a stop_time names (resolved by the load)
StopOf(stop_id) == stops[CHOOSE i \in DOMAIN stops : stops[i].id = stop_id]

\* trip.stop_times: the trip's stop_times, ordered by stop_sequence
RECURSIVE SortBySequence(_)
SortBySequence(S) ==
    IF S = {} THEN <<>>
    ELSE LET lo == CHOOSE st \in S :
                       \A o \in S : st.stop_sequence <= o.stop_sequence
         IN  <<lo>> \o SortBySequence(S \ {lo})

TripStopTimes(trip_id) ==
    SortBySequence({st \in Range(stop_times) : st.trip_id = trip_id})

\* chrono_tz::Tz::from_str: Some(zone) for a zone name of the database,
\* None for the Err case
TzNames ==
    [n \in {"America/New_York", "America/Chicago", "America/Denver",
            "America/Los_Angeles", "America/Phoenix"} |->
        CASE n = "America/New_York" -> "America__New_York"
          [] n = "America/Chicago" -> "America__Chicago"
          [] n = "America/Denver" -> "America__Denver"
          [] n = "America/Los_Angeles" -> "America__Los_Angeles"
          [] n = "America/Phoenix" -> "America__Phoenix"]

TzFromStr(s) == IF s \in DOMAIN TzNames THEN Some(TzNames[s]) ELSE None

-----------------------------------------------------------------------------
(* Detectors, main.rs:89-217 *)

\* main.rs:93-99
ShapelessRouteIds ==
    {routes[i].id : i \in {k \in DOMAIN routes :
        /\ routes[k].long_name # None
        /\ Unwrap(routes[k].long_name) \in SHAPELESS_ROUTE_LONG_NAMES}}

\* mutant of is_line_too_stupidly_broken: the latitude is not compared
is_line_broken_by_longitude(shape) ==
    \E idx \in 2..Len(shape) :
        Abs(shape[idx - 1].longitude - shape[idx].longitude)
            > threshold_degree_broken

\* main.rs:107-116: a jump of more than the threshold between two
\* consecutive points, in longitude or in latitude
is_line_too_stupidly_broken(shape) ==
    \E idx \in 2..Len(shape) :
        \/ Abs(shape[idx - 1].longitude - shape[idx].longitude)
               > threshold_degree_broken
        \/ Abs(shape[idx - 1].latitude - shape[idx].latitude)
               > threshold_degree_broken

\* main.rs:106-121
BrokenShapeIds ==
    {shape_id \in DOMAIN shapes : is_line_too_stupidly_broken(shapes[shape_id])}

\* main.rs:155-160; any other zone reaches unreachable!()
GraceZones == {"America__Chicago", "America__Denver", "America__Los_Angeles"}

soonest_hr_to_break(initial_timezone) ==
    CASE initial_timezone = "America__Chicago" -> 1
      [] initial_timezone = "America__Denver" -> 2
      [] initial_timezone = "America__Los_Angeles" -> 3

\* mutant of DepartsWithinGrace: < for <=
DepartsBeforeGrace(departure_from_midnight, initial_timezone) ==
    departure_from_midnight < soonest_hr_to_break(initial_timezone) * 3600

\* main.rs:162
DepartsWithinGrace(departure_from_midnight, initial_timezone) ==
    departure_from_midnight <= soonest_hr_to_break(initial_timezone) * 3600

\* main.rs:134-173 for one trip: "panic" when an unwrap, the index [0] or
\* unreachable!() fails, "flag" when the trip is printed as potentially
\* broken, "ok" otherwise
MidnightOutcome(trip) ==
    LET route == RoutesGet(trip.route_id) IN
    IF route = None THEN "panic"
    ELSE IF Unwrap(route).route_type # "Rail" THEN "ok"
    ELSE LET sts == TripStopTimes(trip.id) IN
    IF sts = <<>> THEN "panic"
    ELSE LET first_stop_time == sts[1] IN
    IF first_stop_time.departure_time = None THEN "panic"
    ELSE LET departure_from_midnight == Unwrap(first_stop_time.departure_time)
             initial_timezone_str == StopOf(first_stop_time.stop_id).timezone
         IN
    IF initial_timezone_str = None THEN "panic"
    ELSE LET parsed == TzFromStr(Unwrap(initial_timezone_str)) IN
    IF parsed = None THEN "panic"
    ELSE LET initial_timezone == Unwrap(parsed) IN
    IF initial_timezone = "America__New_York" THEN "ok"
    ELSE IF initial_timezone \notin GraceZones THEN "panic"
    ELSE IF DepartsWithinGrace(departure_from_midnight, initial_timezone)
         THEN IF \/ trip.trip_short_name = None
                 \/ Unwrap(route).long_name = None
                 \/ trip.trip_headsign = None
              THEN "panic"
              ELSE "flag"
         ELSE "ok"

\* main.rs:177-182: later entries overwrite earlier ones
RECURSIVE AgencyIdToName(_)
AgencyIdToName(as) ==
    IF as = <<>> THEN <<>>
    ELSE LET rest == AgencyIdToName(SubSeq(as, 1, Len(as) - 1))
             a == as[Len(as)]
         IN  IF a.id = None THEN rest
             ELSE SelectSeq(rest, LAMBDA e : e[1] # Unwrap(a.id))
                      \o << <<Unwrap(a.id), a.name>> >>

\* agency_id_to_name.get(id)
NameOfAgencyId(id) ==
    LET m == {e \in Range(agency_id_to_name) : e[1] = id}
    IN  IF m = {} THEN None ELSE Some((CHOOSE e \in m : TRUE)[2])

\* main.rs:184-188
RemoveAgencyIds ==
    {Unwrap(a.id) : a \in {x \in Range(agencies) :
        x.name \in AGENCY_NAMES_TO_REMOVE /\ x.id # None}}

\* main.rs:195-200: the route's agency is one to remove (then `continue`)
RouteOfRemovedAgency(route) ==
    route.agency_id # None /\ Unwrap(route.agency_id) \in remove_agency_ids

\* main.rs:194-217, the routes inserted into route_ids_to_remove
RouteIdsToRemove ==
    {r.id : r \in {x \in Range(routes) :
        \/ RouteOfRemovedAgency(x)
        \/ /\ x.long_name # None
           /\ Unwrap(x.long_name) \in ROUTE_LONG_NAMES_TO_REMOVE}}

\* main.rs:194-209, the routes inserted into sle_route_ids
SleRouteIds ==
    {r.id : r \in {x \in Range(routes) :
        /\ x.agency_id # None
        /\ ~RouteOfRemovedAgency(x)
        /\ NameOfAgencyId(Unwrap(x.agency_id)) = Some(SLE_AGENCY_NAME)}}

-----------------------------------------------------------------------------
(* Steps of main up to the opening of the writers *)

\* main.rs:89-99
FindShapelessRoutes ==
    /\ pc = "shapeless_routes"
    /\ route_ids_to_remove_shapes_from' = ShapelessRouteIds
    /\ pc' = "broken_shapes"
    /\ UNCHANGED <<feed, broken_shape_ids, flagged, agency_id_to_name,
                   remove_agency_ids, route_ids_to_remove, sle_route_ids,
                   midnight_todo, writers_open, trip_idx, kept_trip_ids,
                   calendars_to_write, outputs>>

\* main.rs:101-121
FindBrokenShapes ==
    /\ pc = "broken_shapes"
    /\ broken_shape_ids' = BrokenShapeIds
    /\ pc' = "midnight"
    /\ UNCHANGED <<feed, route_ids_to_remove_shapes_from, flagged,
                   agency_id_to_name, remove_agency_ids, route_ids_to_remove,
                   sle_route_ids, midnight_todo, writers_open, trip_idx,
                   kept_trip_ids, calendars_to_write, outputs>>

\* main.rs:133-174, one iteration of the loop over gtfs_initial_read.trips
\* (a HashMap: the order of iteration is arbitrary)
MidnightCheck(i) ==
    /\ pc = "midnight"
    /\ i \in midnight_todo
    /\ LET outcome == MidnightOutcome(trips[i]) IN
       /\ midnight_todo' = midnight_todo \ {i}
       /\ flagged' = IF outcome = "flag" THEN flagged \cup {trips[i].id}
                     ELSE flagged
       /\ pc' = IF outcome = "panic" THEN "panicked"
                ELSE IF midnight_todo' = {} THEN "collect_agencies"
                ELSE "midnight"
    /\ UNCHANGED <<feed, route_ids_to_remove_shapes_from, broken_shape_ids,
                   agency_id_to_name, remove_agency_ids, route_ids_to_remove,
                   sle_route_ids, writers_open, trip_idx, kept_trip_ids,
                   calendars_to_write, outputs>>

\* main.rs:176-188
CollectAgencies ==
    /\ pc = "collect_agencies"
    /\ agency_id_to_name' = AgencyIdToName(agencies)
    /\ remove_agency_ids' = RemoveAgencyIds
    /\ pc' = "classify_routes"
    /\ UNCHANGED <<feed, route_ids_to_remove_shapes_from, broken_shape_ids,
                   flagged, route_ids_to_remove, sle_route_ids, midnight_todo,
                   writers_open, trip_idx, kept_trip_ids, calendars_to_write,
                   outputs>>

\* main.rs:190-217
ClassifyRoutes ==
    /\ pc = "classify_routes"
    /\ route_ids_to_remove' = RouteIdsToRemove
    /\ sle_route_ids' = SleRouteIds
    /\ pc' = "open_writers"
    /\ UNCHANGED <<feed, route_ids_to_remove_shapes_from, broken_shape_ids,
                   flagged, agency_id_to_name, remove_agency_ids,
                   midnight_todo, writers_open, trip_idx, kept_trip_ids,
                   calendars_to_write, outputs>>

\* main.rs:219-225: csv::Writer::from_path creates (truncates) each file
OpenWriters ==
    /\ pc = "open_writers"
    /\ writers_open' = TRUE
    /\ pc' = "trips"
    /\ UNCHANGED <<feed, detected, midnight_todo, trip_idx, kept_trip_ids,
                   calendars_to_write, outputs>>

-----------------------------------------------------------------------------
(* Calendar synthesis, main.rs:342-388 *)

\* format!("catenary-{}-{}", trip_short_name, trip_id)
CalendarIdFor(trip_short_name, trip_id) ==
    <<"c", "a", "t", "e", "n", "a", "r", "y", "-">>
        \o trip_short_name \o <<"-">> \o trip_id

\* mutant of DaysFor: the arm of "343" is a copy of the arm of "2"
DaysFor_CopiedArm(trip_short_name) ==
    IF trip_short_name \in TRIP_SHORT_NAMES_WITH_CALENDAR_FIXES
    THEN Some(<<TRUE, FALSE, FALSE, TRUE, FALSE, TRUE, FALSE>>)
    ELSE None

\* the match arms of make_calendar_for_trip_short_name: the days
\* <<monday, ..., sunday>> of a short name, None for the `_` arm
DaysFor(trip_short_name) ==
    CASE trip_short_name = <<"2">> ->
            Some(<<TRUE, FALSE, FALSE, TRUE, FALSE, TRUE, FALSE>>)
      [] trip_short_name = <<"3", "4", "3">> ->
            Some(<<FALSE, FALSE, FALSE, FALSE, FALSE, TRUE, FALSE>>)
      [] trip_short_name = <<"4", "2", "2">> ->
            Some(<<TRUE, FALSE, FALSE, TRUE, FALSE, TRUE, FALSE>>)
      [] OTHER -> None

make_calendar_for_trip_short_name(trip_id, trip_short_name, cal) ==
    LET days == DaysFor(trip_short_name) IN
    IF days = None THEN None
    ELSE Some([id |-> CalendarIdFor(trip_short_name, trip_id),
               monday |-> Unwrap(days)[1],
               tuesday |-> Unwrap(days)[2],
               wednesday |-> Unwrap(days)[3],
               thursday |-> Unwrap(days)[4],
               friday |-> Unwrap(days)[5],
               saturday |-> Unwrap(days)[6],
               sunday |-> Unwrap(days)[7],
               start_date |-> cal.start_date,
               end_date |-> cal.end_date])

-----------------------------------------------------------------------------
(* The trip pass, main.rs:227-279 *)

\* main.rs:232-241
DetachShape(trip) ==
    IF trip.route_id \in route_ids_to_remove_shapes_from THEN None
    ELSE IF trip.shape_id # None /\ Unwrap(trip.shape_id) \in broken_shape_ids
         THEN None
         ELSE trip.shape_id

\* main.rs:247: the trip has a short name that is in the list of fixes
HasCalendarFix(trip) ==
    /\ trip.trip_short_name # None
    /\ Unwrap(trip.trip_short_name) \in TRIP_SHORT_NAMES_WITH_CALENDAR_FIXES

\* main.rs:246-259: the calendar to push for the trip, None when there is none
NewCalendarFor(trip) ==
    IF HasCalendarFix(trip)
    THEN make_calendar_for_trip_short_name(
             trip.id, Unwrap(trip.trip_short_name),
             Unwrap(CalendarGet(trip.service_id)))
    ELSE None

\* mutant of IsPhantomTrip: the test of the route is missing
IsPhantomTrip_AnyRoute(trip) ==
    /\ trip.trip_short_name # None
    /\ StartsWith(Unwrap(trip.trip_short_name), "9")

\* main.rs:266-274
IsPhantomTrip(trip) ==
    /\ trip.route_id \in sle_route_ids
    /\ trip.trip_short_name # None
    /\ StartsWith(Unwrap(trip.trip_short_name), "9")

\* mutant of SkipsTrip: the `continue` for a removed route is missing
SkipsTrip_OnlyPhantom(trip) == IsPhantomTrip(trip)

\* main.rs:261-274: the two `continue`s
SkipsTrip(trip) ==
    \/ trip.route_id \in route_ids_to_remove
    \/ IsPhantomTrip(trip)

\* the trip as serialized at main.rs:277
CorrectedTrip(trip) ==
    LET new_calendar == NewCalendarFor(trip) IN
    [trip EXCEPT !.shape_id = DetachShape(trip),
                 !.service_id = IF new_calendar = None THEN @
                                ELSE Unwrap(new_calendar).id]

\* One iteration of `for trip in trips`; after the last one the loop ends and
\* trip_wtr is flushed. The calendar lookup of main.rs:244 panics on a
\* service_id that calendar.txt does not define.
ProcessTrip ==
    /\ pc = "trips"
    /\ LET trip == trips[trip_idx] IN
       IF CalendarGet(trip.service_id) = None
       THEN /\ pc' = "panicked"
            /\ UNCHANGED <<trip_idx, kept_trip_ids, calendars_to_write,
                           trip_out>>
       ELSE /\ calendars_to_write' =
                   IF NewCalendarFor(trip) = None THEN calendars_to_write
                   ELSE Append(calendars_to_write, Unwrap(NewCalendarFor(trip)))
            /\ kept_trip_ids' = IF SkipsTrip(trip) THEN kept_trip_ids
                                ELSE kept_trip_ids \cup {trip.id}
            /\ trip_out' = IF SkipsTrip(trip) THEN trip_out
                           ELSE Append(trip_out, CorrectedTrip(trip))
            /\ trip_idx' = trip_idx + 1
            /\ pc' = IF trip_idx = Len(trips) THEN "agencies" ELSE "trips"
    /\ UNCHANGED <<feed, detected, midnight_todo, writers_open, agency_out,
                   route_out, stop_time_out, stop_out, calendar_out>>

-----------------------------------------------------------------------------
(* The other passes, main.rs:281-337 *)

\* main.rs:282
AgencyIsRemoved(agency) ==
    agency.id # None /\ Unwrap(agency.id) \in remove_agency_ids

\* main.rs:281-287
WriteAgencies ==
    /\ pc = "agencies"
    /\ agency_out' = SelectSeq(agencies, LAMBDA a : ~AgencyIsRemoved(a))
    /\ pc' = "stops"
    /\ UNCHANGED <<feed, detected, midnight_todo, writers_open, trip_idx,
                   kept_trip_ids, calendars_to_write, route_out, trip_out,
                   stop_time_out, stop_out, calendar_out>>

\* main.rs:290-304
CorrectedStop(stop) ==
    LET lbo == IF stop.id = LBO_STOP_ID
               THEN [stop EXCEPT !.name = Some(LBO_STOP_NAME),
                                 !.latitude = Some(LBO_LAT),
                                 !.longitude = Some(LBO_LON)]
               ELSE stop
    IN  IF lbo.id = EWR_STOP_ID
        THEN [lbo EXCEPT !.latitude = Some(EWR_LAT),
                         !.longitude = Some(EWR_LON)]
        ELSE lbo

\* main.rs:289-308
WriteStops ==
    /\ pc = "stops"
    /\ stop_out' = [i \in DOMAIN stops |-> CorrectedStop(stops[i])]
    /\ pc' = "stop_times"
    /\ UNCHANGED <<feed, detected, midnight_todo, writers_open, trip_idx,
                   kept_trip_ids, calendars_to_write, agency_out, route_out,
                   trip_out, stop_time_out, calendar_out>>

\* mutant of KeepsStopTime: tests the trips of the feed, not the kept ones
KeepsStopTime_AnyTrip(stop_time) ==
    \E j \in DOMAIN trips : trips[j].id = stop_time.trip_id

\* main.rs:311
KeepsStopTime(stop_time) == stop_time.trip_id \in kept_trip_ids

\* main.rs:310-315
WriteStopTimes ==
    /\ pc = "stop_times"
    /\ stop_time_out' = SelectSeq(stop_times, KeepsStopTime)
    /\ pc' = "routes"
    /\ UNCHANGED <<feed, detected, midnight_todo, writers_open, trip_idx,
                   kept_trip_ids, calendars_to_write, agency_out, route_out,
                   trip_out, stop_out, calendar_out>>

\* main.rs:319
RouteIsRemoved(route) == route.id \in route_ids_to_remove

\* mutant of CorrectedRoute: the color is not overridden
CorrectedRoute_NoColor(route) ==
    IF route.id \in sle_route_ids
    THEN [route EXCEPT !.long_name = Some(SLE_NEW_LONG_NAME),
                       !.short_name = Some(SLE_NEW_SHORT_NAME)]
    ELSE route

\* main.rs:323-328
CorrectedRoute(route) ==
    IF route.id \in sle_route_ids
    THEN [route EXCEPT !.long_name = Some(SLE_NEW_LONG_NAME),
                       !.short_name = Some(SLE_NEW_SHORT_NAME),
                       !.color = Some(SLE_NEW_COLOR)]
    ELSE route

\* main.rs:317-332
WriteRoutes ==
    /\ pc = "routes"
    /\ route_out' =
           LET kept == SelectSeq(routes, LAMBDA r : ~RouteIsRemoved(r))
           IN  [i \in DOMAIN kept |-> CorrectedRoute(kept[i])]
    /\ pc' = "calendars"
    /\ UNCHANGED <<feed, detected, midnight_todo, writers_open, trip_idx,
                   kept_trip_ids, calendars_to_write, agency_out, trip_out,
                   stop_time_out, stop_out, calendar_out>>

\* main.rs:334-339
WriteCalendars ==
    /\ pc = "calendars"
    /\ calendar_out' = calendars_to_write
    /\ pc' = "done"
    /\ UNCHANGED <<feed, detected, midnight_todo, writers_open, trip_idx,
                   kept_trip_ids, calendars_to_write, agency_out, route_out,
                   trip_out, stop_time_out, stop_out>>

Next ==
    \/ FindShapelessRoutes
    \/ FindBrokenShapes
    \/ \E i \in 1..NumTrips : MidnightCheck(i)
    \/ CollectAgencies
    \/ ClassifyRoutes
    \/ OpenWriters
    \/ ProcessTrip
    \/ WriteAgencies
    \/ WriteStops
    \/ WriteStopTimes
    \/ WriteRoutes
    \/ WriteCalendars

-----------------------------------------------------------------------------
(* The loaded feed, main.rs:76-87.                                         *)
(*                                                                         *)
(* Every specification draws the feed from a family of tables: one family  *)
(* per group of rules, each varying the fields its rules read and keeping  *)
(* the others at the base values below. Trip j has the id "t<j>"; the      *)
(* stop_times table lists the stop_times of trip 1, then of trip 2, ...    *)

Digits == <<"1", "2", "3", "4", "5">>

TripIdOf(j) == <<"t", Digits[j]>>

StopTable ==
    << [id |-> "LBO", name |-> Some("Los Banos"), latitude |-> Some(54767000),
        longitude |-> Some(-101877000), timezone |-> Some("America/Los_Angeles")],
       [id |-> "EWR", name |-> Some("Newark Airport"), latitude |-> Some(40690000),
        longitude |-> Some(-74180000), timezone |-> Some("America/New_York")],
       [id |-> "CHI", name |-> Some("Chicago"), latitude |-> Some(41878000),
        longitude |-> Some(-87640000), timezone |-> Some("America/Chicago")],
       [id |-> "DEN", name |-> Some("Denver"), latitude |-> Some(39753000),
        longitude |-> Some(-105000000), timezone |-> Some("America/Denver")],
       [id |-> "PHX", name |-> Some("Phoenix"), latitude |-> Some(33448000),
        longitude |-> Some(-112074000), timezone |-> Some("America/Phoenix")],
       [id |-> "NTZ", name |-> None, latitude |-> None,
        longitude |-> None, timezone |-> None],
       [id |-> "BAD", name |-> Some("Nowhere"), latitude |-> Some(0),
        longitude |-> Some(0), timezone |-> Some("Mars/Olympus")] >>

BaseAgencies ==
    << [id |-> Some("a1"), name |-> "Amtrak"],
       [id |-> Some("a2"), name |-> "Shore Line East"] >>

BaseRoute1 ==
    [id |-> "r1", agency_id |-> Some("a1"), long_name |-> Some("Acela"),
     short_name |-> Some("AC"), route_type |-> "Rail", color |-> Some("FFFFFF")]

BaseRoute2 ==
    [id |-> "r2", agency_id |-> Some("a2"), long_name |-> Some("Connector"),
     short_name |-> None, route_type |-> "Bus", color |-> None]

BaseRoutes == <<BaseRoute1, BaseRoute2>>

Point(lat, lon) == [latitude |-> lat, longitude |-> lon]

GoodShape == <<Point(0, 0), Point(100000, -100000)>>

BaseShapes == [shape_id \in {"s1", "s2"} |-> GoodShape]

Calendar1 ==
    [id |-> <<"c", "1">>, monday |-> TRUE, tuesday |-> TRUE, wednesday |-> TRUE,
     thursday |-> TRUE, friday |-> TRUE, saturday |-> TRUE, sunday |-> TRUE,
     start_date |-> 20240101, end_date |-> 20241231]

Calendar2 ==
    [id |-> <<"c", "2">>, monday |-> FALSE, tuesday |-> TRUE, wednesday |-> FALSE,
     thursday |-> FALSE, friday |-> TRUE, saturday |-> FALSE, sunday |-> TRUE,
     start_date |-> 20250101, end_date |-> 20250630]

\* a calendar of the upstream table that bears the id this program gives the
\* calendar of trip 1 with short name "2" (as in a feed this program wrote)
CalendarOfEarlierRun ==
    [id |-> CalendarIdFor(<<"2">>, TripIdOf(1)), monday |-> TRUE,
     tuesday |-> FALSE, wednesday |-> FALSE, thursday |-> TRUE, friday |-> FALSE,
     saturday |-> TRUE, sunday |-> FALSE,
     start_date |-> 20230101, end_date |-> 20231231]

BaseCalendar == <<Calendar1, Calendar2>>

\* what varies of trip j and of its stop_times
BaseTrip(j) ==
    [route_id |-> IF j % 2 = 1 THEN "r1" ELSE "r2",
     service_id |-> Calendar1.id,
     shape_id |-> Some("s1"),
     trip_short_name |-> Some(<<"7">>),
     trip_headsign |-> Some("Boston"),
     first_stop |-> "EWR",
     first_departure |-> Some(3600),
     n_stop_times |-> ((j - 1) % MaxStopTimes) + 1]

MkTrip(j, o) ==
    [id |-> TripIdOf(j), route_id |-> o.route_id, service_id |-> o.service_id,
     shape_id |-> o.shape_id, trip_short_name |-> o.trip_short_name,
     trip_headsign |-> o.trip_headsign]

MkStopTimes(j, o) ==
    [k \in 1..o.n_stop_times |->
        [trip_id |-> TripIdOf(j),
         stop_id |-> IF k = 1 THEN o.first_stop ELSE "EWR",
         departure_time |-> IF k = 1 THEN o.first_departure ELSE Some(40000 + k),
         stop_sequence |-> k]]

RECURSIVE TripChoices(_, _)
TripChoices(Opts, n) ==
    IF n = 0 THEN {<<>>}
    ELSE {Append(s, o) : s \in TripChoices(Opts, n - 1), o \in Opts[n]}

RECURSIVE AllStopTimes(_, _)
AllStopTimes(os, n) ==
    IF n = 0 THEN <<>>
    ELSE AllStopTimes(os, n - 1) \o MkStopTimes(n, os[n])

\* the state before main.rs:89, for a feed of the given family
InitFeed(AgencyTables, RouteTables, Opts, ShapeTables, CalendarTables) ==
    /\ agencies \in AgencyTables
    /\ routes \in RouteTables
    /\ shapes \in ShapeTables
    /\ calendar \in CalendarTables
    /\ stops = StopTable
    /\ \E os \in TripChoices(Opts, NumTrips) :
          /\ trips = [j \in 1..NumTrips |-> MkTrip(j, os[j])]
          /\ stop_times = AllStopTimes(os, NumTrips)
    /\ pc = "shapeless_routes"
    /\ route_ids_to_remove_shapes_from = {}
    /\ broken_shape_ids = {}
    /\ midnight_todo = 1..NumTrips
    /\ flagged = {}
    /\ agency_id_to_name = <<>>
    /\ remove_agency_ids = {}
    /\ route_ids_to_remove = {}
    /\ sle_route_ids = {}
    /\ writers_open = FALSE
    /\ trip_idx = 1
    /\ kept_trip_ids = {}
    /\ calendars_to_write = calendar
    /\ agency_out = <<>>
    /\ route_out = <<>>
    /\ trip_out = <<>>
    /\ stop_time_out = <<>>
    /\ stop_out = <<>>
    /\ calendar_out = <<>>

(* Feeds for the removal and rebranding rules: the agencies, the agency and *)
(* long name of route r1, the route and short name of every trip.          *)

RemovalAgencyTables ==
    {<<a, b>> :
        a \in {[id |-> None, name |-> "MARC"],
               [id |-> Some("a1"), name |-> "MARC"],
               [id |-> Some("a1"), name |-> "Via Rail Canada"],
               [id |-> Some("a1"), name |-> "Amtrak"]},
        b \in {[id |-> Some("a2"), name |-> "Shore Line East"],
               [id |-> Some("a2"), name |-> "Amtrak"]}}

RemovalRouteTables ==
    {<<[BaseRoute1 EXCEPT !.agency_id = a, !.long_name = l], BaseRoute2>> :
        a \in {None, Some("a1"), Some("a2")},
        l \in {Some("Acela"), Some("Capitol Corridor")}}

RemovalTrips ==
    [j \in 1..NumTrips |->
        {[BaseTrip(j) EXCEPT !.route_id = r, !.trip_short_name = n] :
            r \in {"r1", "r2"},
            n \in {None, Some(<<"9", "1">>), Some(<<"7">>)}}]

InitRemoval ==
    InitFeed(RemovalAgencyTables, RemovalRouteTables, RemovalTrips,
             {BaseShapes}, {BaseCalendar})

(* Feeds for the calendar rules: the calendar table, the service and short *)
(* name of every trip, the route of trip 1 (r2 is a removed route, r9 is   *)
(* not in routes.txt).                                                     *)

CalendarRouteTables ==
    {<<BaseRoute1, [BaseRoute2 EXCEPT !.long_name = Some("Capitol Corridor")]>>}

CalendarTables ==
    {<<Calendar1, Calendar2>>, <<Calendar1>>,
     <<Calendar1, Calendar2, CalendarOfEarlierRun>>}

CalendarTrips ==
    [j \in 1..NumTrips |->
        {[BaseTrip(j) EXCEPT !.route_id = r, !.service_id = c,
                             !.trip_short_name = n] :
            r \in IF j = 1 THEN {"r1", "r2", "r9"} ELSE {"r1"},
            c \in {Calendar1.id, Calendar2.id},
            n \in {None, Some(<<"7">>)}
                      \cup {Some(x) : x \in TRIP_SHORT_NAMES_WITH_CALENDAR_FIXES}}]

InitCalendar ==
    InitFeed({BaseAgencies}, CalendarRouteTables, CalendarTrips,
             {BaseShapes}, CalendarTables)

(* Feeds for the shape rules: the points of shape s1, the long name of     *)
(* route r1, the shape of the first two trips.                             *)

ShapePoints ==
    {Point(0, 0), Point(100000, 0), Point(100001, 0), Point(0, -100001)}

RECURSIVE ShapesOfLen(_)
ShapesOfLen(n) ==
    IF n = 0 THEN {<<>>}
    ELSE {Append(s, p) : s \in ShapesOfLen(n - 1), p \in ShapePoints}

ShapeTables ==
    {[shape_id \in {"s1", "s2"} |-> IF shape_id = "s1" THEN s ELSE GoodShape] :
        s \in UNION {ShapesOfLen(n) : n \in 1..MaxShapeLen}}

ShapeRouteTables ==
    {<<[BaseRoute1 EXCEPT !.long_name = l], BaseRoute2>> :
        l \in {None, Some("Acela"), Some("California Zephyr"), Some("Floridian")}}

ShapeTrips ==
    [j \in 1..NumTrips |->
        {[BaseTrip(j) EXCEPT !.shape_id = s] :
            s \in IF j <= 2 THEN {None, Some("s1"), Some("s2")}
                            ELSE {Some("s1")}}]

InitShape ==
    InitFeed({BaseAgencies}, ShapeRouteTables, ShapeTrips, ShapeTables,
             {BaseCalendar})

(* Feeds for the midnight-crossing check: the type and long name of route  *)
(* r1, which every trip is on; the first stop (hence the timezone), the    *)
(* first departure, the short name and the number of stop_times of trip 1; *)
(* the first stop and departure of the other trips.                        *)

MidnightRouteTables ==
    {<<[BaseRoute1 EXCEPT !.route_type = t, !.long_name = l], BaseRoute2>> :
        t \in {"Rail", "Bus"}, l \in {None, Some("Acela")}}

Departures ==
    {None} \cup {Some(d) : d \in {3600, 3601, 7200, 7201, 9000, 10800, 10801}}

MidnightTrips ==
    [j \in 1..NumTrips |->
        IF j = 1
        THEN {[BaseTrip(j) EXCEPT !.route_id = "r1", !.first_stop = s,
                                  !.first_departure = d, !.trip_short_name = n,
                                  !.n_stop_times = MaxStopTimes] :
                 s \in {StopTable[k].id : k \in DOMAIN StopTable},
                 d \in Departures,
                 n \in {None, Some(<<"7">>)}}
             \cup {[BaseTrip(j) EXCEPT !.route_id = "r1", !.n_stop_times = 0]}
        ELSE {[BaseTrip(j) EXCEPT !.route_id = "r1", !.first_stop = s,
                                  !.first_departure = Some(d)] :
                 s \in {"CHI", "DEN"}, d \in {3600, 9000}}]

InitMidnight ==
    InitFeed({BaseAgencies}, MidnightRouteTables, MidnightTrips,
             {BaseShapes}, {BaseCalendar})

Init == InitRemoval \/ InitCalendar \/ InitShape \/ InitMidnight

Spec == Init /\ [][Next]_vars

-----------------------------------------------------------------------------
(* Vocabulary of the properties: the feed and the output, read directly    *)

Done == pc = "done"

Panicked == pc = "panicked"

\* the input trip with the given id
InputTrip(id) == trips[CHOOSE j \in DOMAIN trips : trips[j].id = id]

EmittedTripIds == {trip_out[k].id : k \in DOMAIN trip_out}

EmittedRouteIds == {route_out[k].id : k \in DOMAIN route_out}

\* the input route a trip is on (every trip of a completed run has one)
InputRoute(route_id) ==
    routes[CHOOSE j \in DOMAIN routes : routes[j].id = route_id]

\* the route's agency_id is the id of an agency with the given name
RouteBelongsTo(route, names) ==
    /\ route.agency_id # None
    /\ \E a \in Range(agencies) :
          a.id = route.agency_id /\ a.name \in names

LongNameIn(route, names) ==
    route.long_name # None /\ Unwrap(route.long_name) \in names

-----------------------------------------------------------------------------
(* C1: every stop_time written to the stop_times output has the trip_id of *)
(* a trip written to the trips output: no stop_time of a skipped trip is   *)
(* emitted.                                                                *)
C1_NoOrphanStopTimes ==
    \A i \in DOMAIN stop_time_out :
        stop_time_out[i].trip_id \in EmittedTripIds

\* a completed run that dropped the stop_times of a skipped trip and kept
\* those of an emitted one
C1_Witness ==
    /\ Done
    /\ stop_time_out # <<>>
    /\ \E i \in DOMAIN stop_times :
          stop_times[i].trip_id \notin EmittedTripIds

(* C2: on a completed run every emitted trip has the service_id of an      *)
(* emitted calendar (upstream or synthesized) and the route_id of an       *)
(* emitted route.                                                          *)
C2_TripReferencesResolve ==
    Done =>
        \A k \in DOMAIN trip_out :
            /\ \E c \in DOMAIN calendar_out :
                  calendar_out[c].id = trip_out[k].service_id
            /\ trip_out[k].route_id \in EmittedRouteIds

\* a completed run with an emitted trip on a synthesized calendar and with
\* a removed route
C2_Witness ==
    /\ Done
    /\ \E k \in DOMAIN trip_out :
          \A c \in DOMAIN calendar : calendar[c].id # trip_out[k].service_id
    /\ Len(route_out) < Len(routes)

(* C3: for every agency named in the exclusion list the output holds       *)
(* neither the agency, nor a route of that agency, nor a trip on such a    *)
(* route, nor a stop_time of such a trip.                                  *)
C3_ExcludedAgencyLeavesNoTrace ==
    Done =>
        \A a \in Range(agencies) :
            a.name \in AGENCY_NAMES_TO_REMOVE =>
                /\ a \notin Range(agency_out)
                /\ \A r \in Range(routes) :
                      (r.agency_id # None /\ r.agency_id = a.id) =>
                          /\ r.id \notin EmittedRouteIds
                          /\ \A k \in DOMAIN trip_out :
                                trip_out[k].route_id # r.id
                          /\ \A i \in DOMAIN stop_time_out :
                                InputTrip(stop_time_out[i].trip_id).route_id
                                    # r.id

(* C4 as stated: a shape with a jump of more than 0.1 degree between two   *)
(* consecutive points has every emitted trip that referenced it emitted    *)
(* without a shape, and every other trip is emitted with the shape         *)
(* reference of the input.                                                 *)
HasJump(shape) ==
    \E n \in 1..(Len(shape) - 1) :
        \/ Abs(shape[n].latitude - shape[n + 1].latitude) > 100000
        \/ Abs(shape[n].longitude - shape[n + 1].longitude) > 100000

ReferencesJumpyShape(trip) ==
    /\ trip.shape_id # None
    /\ Unwrap(trip.shape_id) \in DOMAIN shapes
    /\ HasJump(shapes[Unwrap(trip.shape_id)])

C4_OnlyJumpyShapesDetached ==
    Done =>
        \A k \in DOMAIN trip_out :
            trip_out[k].shape_id =
                IF ReferencesJumpyShape(InputTrip(trip_out[k].id))
                THEN None
                ELSE InputTrip(trip_out[k].id).shape_id

(* C4 as amended: ... and every other trip is emitted with the shape       *)
(* reference of the input, unless the long name of its route is            *)
(* "California Zephyr" or "Floridian": such a trip is emitted without a    *)
(* shape reference whatever its shape.                                     *)
C4_ShapeDetachment ==
    Done =>
        \A k \in DOMAIN trip_out :
            LET t == InputTrip(trip_out[k].id) IN
            trip_out[k].shape_id =
                IF \/ ReferencesJumpyShape(t)
                   \/ LongNameIn(InputRoute(t.route_id),
                                 {"California Zephyr", "Floridian"})
                THEN None
                ELSE t.shape_id

\* a completed run that cleared the reference to a jumpy shape on one trip
\* and kept the reference to a sound shape on another
C4_Witness ==
    /\ Done
    /\ \E k \in DOMAIN trip_out :
          /\ ReferencesJumpyShape(InputTrip(trip_out[k].id))
          /\ trip_out[k].shape_id = None
    /\ \E k \in DOMAIN trip_out : trip_out[k].shape_id # None

(* C5: the midnight-crossing check flags a trip exactly when its route is  *)
(* Rail, the timezone of its first stop is Central, Mountain or Pacific    *)
(* and its first departure is at most 1, 2 or 3 hours after midnight; a    *)
(* trip starting in the Eastern zone or on a route that is not Rail is     *)
(* never flagged.                                                          *)
FirstStopTimes(trip) ==
    {st \in Range(stop_times) :
        /\ st.trip_id = trip.id
        /\ \A o \in Range(stop_times) :
              o.trip_id = trip.id => st.stop_sequence <= o.stop_sequence}

GraceSeconds(zone_name) ==
    CASE zone_name = "America/Chicago" -> 3600
      [] zone_name = "America/Denver" -> 7200
      [] zone_name = "America/Los_Angeles" -> 10800
      [] OTHER -> -1

ZoneOfStop(stop_id) ==
    LET z == {stops[k].timezone : k \in {n \in DOMAIN stops : stops[n].id = stop_id}}
    IN  CHOOSE tz \in z : TRUE

CrossesMidnight(trip) ==
    /\ \E r \in Range(routes) : r.id = trip.route_id /\ r.route_type = "Rail"
    /\ \E st \in FirstStopTimes(trip) :
          /\ st.departure_time # None
          /\ ZoneOfStop(st.stop_id) # None
          /\ Unwrap(st.departure_time) <= GraceSeconds(Unwrap(ZoneOfStop(st.stop_id)))

\* the loop of the check ran to its end
MidnightCheckCompleted == midnight_todo = {} /\ (~Panicked \/ writers_open)

ExpectedDays(short_name) ==
    IF short_name = <<"3", "4", "3">>
    THEN [monday |-> FALSE, thursday |-> FALSE, saturday |-> TRUE]
    ELSE [monday |-> TRUE, thursday |-> TRUE, saturday |-> TRUE]

ExpectedCalendarId(short_name, trip_id) ==
    <<"c", "a", "t", "e", "n", "a", "r", "y", "-">>
        \o short_name \o <<"-">> \o trip_id

IsSynthesizedFor(c, trip) ==
    LET n == Unwrap(trip.trip_short_name) IN
    /\ c.id = ExpectedCalendarId(n, trip.id)
    /\ c.monday = ExpectedDays(n).monday
    /\ c.thursday = ExpectedDays(n).thursday
    /\ c.saturday = ExpectedDays(n).saturday
    /\ ~c.tuesday /\ ~c.wednesday /\ ~c.friday /\ ~c.sunday
    /\ \E o \in Range(calendar) :
          /\ o.id = trip.service_id
          /\ c.start_date = o.start_date
          /\ c.end_date = o.end_date

NamedForFix(trip) ==
    trip.trip_short_name \in
        {Some(<<"2">>), Some(<<"3", "4", "3">>), Some(<<"4", "2", "2">>)}

C6_CalendarSynthesis ==
    Done =>
        /\ SubSeq(calendar_out, 1, Len(calendar)) = calendar
        /\ \A j \in DOMAIN trips :
              NamedForFix(trips[j]) =>
                  \E c \in (Len(calendar) + 1)..Len(calendar_out) :
                      IsSynthesizedFor(calendar_out[c], trips[j])
        /\ \A k \in DOMAIN trip_out :
              LET t == InputTrip(trip_out[k].id) IN
              trip_out[k].service_id =
                  IF NamedForFix(t)
                  THEN ExpectedCalendarId(Unwrap(t.trip_short_name), t.id)
                  ELSE t.service_id

\* a completed run that emitted a trip named "343" on its new calendar and
\* a trip with another short name
C6_Witness ==
    /\ Done
    /\ \E k \in DOMAIN trip_out :
          /\ trip_out[k].trip_short_name = Some(<<"3", "4", "3">>)
          /\ trip_out[k].service_id # InputTrip(trip_out[k].id).service_id
    /\ \E j \in DOMAIN trips : ~NamedForFix(trips[j])

(* C7 as stated: every route of the agency named "Shore Line East" is      *)
(* emitted with its id and agency_id and with short name "SLE", long name  *)
(* "Shore Line East" and color EA0D2A; every other emitted route has its   *)
(* short name, long name and color of the input.                           *)
Rebranded(route) ==
    [route EXCEPT !.short_name = Some("SLE"),
                  !.long_name = Some("Shore Line East"),
                  !.color = Some("EA0D2A")]

OtherRoutesUntouched ==
    \A k \in DOMAIN route_out :
        LET r == InputRoute(route_out[k].id) IN
        ~RouteBelongsTo(r, {"Shore Line East"}) => route_out[k] = r

C7_EverySleRouteEmittedRebranded ==
    Done =>
        /\ \A r \in Range(routes) :
              RouteBelongsTo(r, {"Shore Line East"}) =>
                  Rebranded(r) \in Range(route_out)
        /\ OtherRoutesUntouched

(* C7 as amended: every route of the agency named "Shore Line East" whose  *)
(* long name is not "Capitol Corridor" is emitted with its id and          *)
(* agency_id and with the three overrides, and one whose long name is      *)
(* "Capitol Corridor" is not emitted; every other emitted route is as in   *)
(* the input.                                                              *)
C7_Rebranding ==
    Done =>
        /\ \A r \in Range(routes) :
              RouteBelongsTo(r, {"Shore Line East"}) =>
                  IF LongNameIn(r, {"Capitol Corridor"})
                  THEN r.id \notin EmittedRouteIds
                  ELSE Rebranded(r) \in Range(route_out)
        /\ OtherRoutesUntouched

\* a completed run that emitted a rebranded route and an untouched one
C7_Witness ==
    /\ Done
    /\ \E k \in DOMAIN route_out :
          /\ RouteBelongsTo(InputRoute(route_out[k].id), {"Shore Line East"})
          /\ route_out[k] # InputRoute(route_out[k].id)
    /\ \E k \in DOMAIN route_out :
          ~RouteBelongsTo(InputRoute(route_out[k].id), {"Shore Line East"})

(* C8: in the emitted calendar table every calendar id occurs once (the    *)
(* upstream calendar ids and the trip ids of the feed are unique).         *)
C8_CalendarIdsUnique ==
    Done =>
        \A a, b \in DOMAIN calendar_out :
            calendar_out[a].id = calendar_out[b].id => a = b

(* C9: a run that aborts has written no record to any output table.        *)
C9_AbortWritesNothing ==
    Panicked =>
        /\ agency_out = <<>> /\ route_out = <<>> /\ trip_out = <<>>
        /\ stop_time_out = <<>> /\ stop_out = <<>> /\ calendar_out = <<>>

(* C10: a trip is written to the trips output, and its id recorded in the  *)
(* kept-trip set, exactly when its route is not excluded (by its agency or *)
(* by the long name "Capitol Corridor") and it is not a trip of a "Shore   *)
(* Line East" route whose short name starts with '9'.                      *)
OnExcludedRoute(trip) ==
    LET r == InputRoute(trip.route_id) IN
    \/ RouteBelongsTo(r, {"MARC", "Via Rail Canada"})
    \/ LongNameIn(r, {"Capitol Corridor"})

Phantom(trip) ==
    /\ RouteBelongsTo(InputRoute(trip.route_id), {"Shore Line East"})
    /\ trip.trip_short_name # None
    /\ Unwrap(trip.trip_short_name) # <<>>
    /\ Head(Unwrap(trip.trip_short_name)) = "9"

C10_TripInclusion ==
    Done =>
        /\ kept_trip_ids = EmittedTripIds
        /\ \A j \in DOMAIN trips :
              trips[j].id \in EmittedTripIds
                  <=> ~OnExcludedRoute(trips[j]) /\ ~Phantom(trips[j])

\* a completed run that dropped a '9' trip of a Shore Line East route and
\* kept a '9' trip of another route
C10_Witness ==
    /\ Done
    /\ \E i, j \in DOMAIN trips :
          /\ trips[i].trip_short_name = Some(<<"9", "1">>)
          /\ trips[j].trip_short_name = Some(<<"9", "1">>)
          /\ Phantom(trips[i]) /\ trips[i].id \notin EmittedTripIds
          /\ ~Phantom(trips[j]) /\ trips[j].id \in EmittedTripIds

====
